---------------------------- MODULE Spec2Model ----------------------------
(***************************************************************************)
(* Model of src/components/unicode-table.js: the UTF-16 codepoint decoder  *)
(* charCodeUTF32, the character matrix generator getCharMatrix and one     *)
(* render of the UnicodeTable component over its catalog testCodes.        *)
(*                                                                         *)
(* A JavaScript string is a sequence of UTF-16 code units (0..65535).      *)
(* A JavaScript value is a record tagged by its type; the result of a      *)
(* call is a completion: a normal return of a value, or a thrown error.    *)
(***************************************************************************)
EXTENDS Integers, Sequences, FiniteSets, TLC

VARIABLES
    value, result, dpc,                 \* one call of charCodeUTF32
    unicode, matrix, mpc,               \* one call of getCharMatrix
    catalogSrc,                         \* the array literal the component is built with
    testCodes, normalizedTests,         \* locals of one render of UnicodeTable
    idx, output, matrixCalls, rpc,      \* position and product of testCodes.map
    thrown,                             \* the error that ended the render
    prevOutput, renders                 \* what the host kept of earlier renders

vars == <<value, result, dpc, unicode, matrix, mpc, catalogSrc, testCodes,
          normalizedTests, idx, output, matrixCalls, rpc, thrown, prevOutput,
          renders>>

(***************************************************************************)
(* Bounds of the model.                                                    *)
(***************************************************************************)
\* longest text value handed to the decoder and to the matrix generator
MaxLen == 2
\* number of renders the host performs
MaxRenders == 3
\* longest alternative catalog
MaxCat == 2

(***************************************************************************)
(* JavaScript values and completions.                                      *)
(***************************************************************************)
Undefined == [t |-> "undefined"]
Bool(b) == [t |-> "boolean", b |-> b]
Num(n) == [t |-> "number", n |-> n]
Str(u) == [t |-> "string", u |-> u]

Pending == [c |-> "pending"]
Return(v) == [c |-> "return", v |-> v]
Throw(e) == [c |-> "throw", e |-> e]

CodeUnits == 0 .. (2^16 - 1)

\* String.prototype.charCodeAt(i) for an index inside the string (0-based)
charCodeAt(s, i) == s.u[i + 1]

\* String.fromCharCode(n): ToUint16 of the argument, as a one-unit string
fromCharCode(n) == Str(<<n % 2^16>>)

\* value.length: reading a property of undefined throws a TypeError
length(v) ==
    IF v.t = "undefined" THEN Throw("TypeError")
    ELSE Return(Num(Len(v.u)))

(***************************************************************************)
(* charCodeUTF32 (lines 6-17).                                             *)
(***************************************************************************)
\* the literals 0xd800, 0x400, 0xdc00 and 0x10000 of lines 12-14
HighSurrogateBase == 55296
HighSurrogateFactor == 1024
LowSurrogateBase == 56320
SupplementaryBase == 65536

\* a decoder that forgets the + 0x10000 of line 14
charCodeUTF32_noOffset(v) ==
    IF length(v).c = "throw" THEN length(v)
    ELSE IF Len(v.u) = 1 THEN Return(Num(charCodeAt(v, 0)))
    ELSE IF Len(v.u) > 1
         THEN Return(Num((charCodeAt(v, 0) - HighSurrogateBase) * HighSurrogateFactor
                         + (charCodeAt(v, 1) - LowSurrogateBase)))
    ELSE Return(Undefined)

\* a decoder that tests value.length > 1 before value.length == 1 and so applies
\* the surrogate base to a lone unit
charCodeUTF32_pairFirst(v) ==
    IF length(v).c = "throw" THEN length(v)
    ELSE IF Len(v.u) > 1
         THEN Return(Num((charCodeAt(v, 0) - HighSurrogateBase) * HighSurrogateFactor
                         + (charCodeAt(v, 1) - LowSurrogateBase) + SupplementaryBase))
    ELSE IF Len(v.u) = 1 THEN Return(Num(charCodeAt(v, 0) - HighSurrogateBase))
    ELSE Return(Undefined)

charCodeUTF32(v) ==
    IF length(v).c = "throw" THEN length(v)
    ELSE IF Len(v.u) = 1 THEN Return(Num(charCodeAt(v, 0)))
    ELSE IF Len(v.u) > 1
         THEN Return(Num((charCodeAt(v, 0) - HighSurrogateBase) * HighSurrogateFactor
                         + (charCodeAt(v, 1) - LowSurrogateBase) + SupplementaryBase))
    ELSE Return(Undefined)

(***************************************************************************)
(* Number.prototype.toString(radix), as called on the decoder's result at  *)
(* line 352.  Calling a method of undefined throws a TypeError.            *)
(***************************************************************************)
\* the digit d of a radix up to 36 as a code unit: "0".."9", then "a".."z"
DigitUnit(d) == IF d < 10 THEN 48 + d ELSE 87 + d

RECURSIVE Digits(_, _)
Digits(n, radix) ==
    IF n < radix THEN <<DigitUnit(n)>>
    ELSE Digits(n \div radix, radix) \o <<DigitUnit(n % radix)>>

\* a formatter that ignores its radix argument and writes decimal
NumberToString_decimal(n, radix) ==
    IF n < 0 THEN <<45>> \o Digits(0 - n, 10) ELSE Digits(n, 10)

NumberToString(n, radix) ==
    IF n < 0 THEN <<45>> \o Digits(0 - n, radix) ELSE Digits(n, radix)

\* a formatter that writes undefined as a text instead of throwing
toString_lenient(v, radix) ==
    IF v.t = "undefined" THEN Return(Str(<<117, 110, 100, 101, 102, 105, 110, 101, 100>>))
    ELSE Return(Str(NumberToString(v.n, radix)))

toString(v, radix) ==
    IF v.t = "undefined" THEN Throw("TypeError")
    ELSE Return(Str(NumberToString(v.n, radix)))

(***************************************************************************)
(* getCharMatrix (lines 308-336).  The table it returns is modelled by the *)
(* text of its cells: row by row, the text React renders for the three     *)
(* children of each cell.                                                  *)
(***************************************************************************)
start == 32
end == 127

\* the text a child expression renders as: a string as itself, undefined and
\* false as nothing
ChildText(v) == IF v.t = "string" THEN v.u ELSE <<>>

\* a loop that stops before end (i < end)
chars_exclusiveEnd == [k \in 1 .. (end - start) |-> start + k - 1]

\* lines 317-319: for (var i = start; i <= end; i++) chars.push(i)
chars == [k \in 1 .. (end - start + 1) |-> start + k - 1]

getCharMatrix(u) ==
    [i \in 1 .. Len(chars) |->
        [j \in 1 .. Len(chars) |->
            ChildText(fromCharCode(chars[i])) \o ChildText(u)
                \o ChildText(fromCharCode(chars[j]))]]

(***************************************************************************)
(* One call of the decoder on a text value: every one-unit string, every   *)
(* high surrogate followed by a low surrogate, and the strings of up to    *)
(* MaxLen units drawn from the units at and around the surrogate           *)
(* boundaries.                                                             *)
(***************************************************************************)
HighSurrogates == 55296 .. 56319
LowSurrogates == 56320 .. 57343

SampleUnits ==
    {0, 32, 55295, 55296, 55357, 56319, 56320, 56832, 57343, 57344, 65535}

SeqsUpTo(S, n) == UNION {[1 .. k -> S] : k \in 0 .. n}

DecodeInputs ==
    {Str(<<c>>) : c \in CodeUnits} \cup {Str(s) : s \in SeqsUpTo(SampleUnits, MaxLen)}

NoDecode == value = Undefined /\ result = Pending /\ dpc = "unused"
NoMatrix == unicode = Undefined /\ matrix = <<>> /\ mpc = "unused"
NoRender ==
    /\ catalogSrc = <<>> /\ testCodes = <<>> /\ normalizedTests = <<>>
    /\ idx = 0 /\ output = <<>> /\ matrixCalls = <<>> /\ rpc = "unused"
    /\ thrown = "none" /\ prevOutput = <<>> /\ renders = 0

decodeVars == <<value, result, dpc>>
matrixVars == <<unicode, matrix, mpc>>
renderVars == <<catalogSrc, testCodes, normalizedTests, idx, output, matrixCalls,
                rpc, thrown, prevOutput, renders>>

InitDecode ==
    /\ \E shape \in {"pair", "other"} :
          IF shape = "pair"
          THEN \E h \in HighSurrogates, l \in LowSurrogates : value = Str(<<h, l>>)
          ELSE value \in DecodeInputs
    /\ result = Pending
    /\ dpc = "called"
    /\ NoMatrix /\ NoRender

Decode ==
    /\ dpc = "called"
    /\ result' = charCodeUTF32(value)
    /\ dpc' = "returned"
    /\ UNCHANGED <<value, matrixVars, renderVars>>

NextDecode == Decode

SpecDecode == InitDecode /\ [][NextDecode]_vars

(***************************************************************************)
(* Claims about the decoder, checked under SpecDecode.                     *)
(***************************************************************************)
IsHigh(c) == 55296 <= c /\ c <= 56319
IsLow(c) == 56320 <= c /\ c <= 57343

\* C1: decoding a text value of exactly one code unit c, an unpaired surrogate
\* unit included, returns the number c; 0x0020 gives 32 and 0xFFFF gives 0xFFFF.
C1_SingleUnitIsItself ==
    (dpc = "returned" /\ Len(value.u) = 1) =>
        /\ result = Return(Num(value.u[1]))
        /\ (value = Str(<<32>>) => result.v.n = 32)
        /\ (value = Str(<<65535>>) => result.v.n = 65535)

C1_Witness ==
    dpc = "returned" /\ value = Str(<<65535>>) /\ result = Return(Num(65535))

\* C2: decoding a high surrogate h followed by a low surrogate l returns
\* (h - 0xD800) * 0x400 + (l - 0xDC00) + 0x10000, a number of 0x10000..0x10FFFF
\* from which h and l are recovered; (0xD800, 0xDC00) gives 0x10000.
C2_SurrogatePairScalar ==
    (dpc = "returned" /\ Len(value.u) = 2 /\ IsHigh(value.u[1]) /\ IsLow(value.u[2])) =>
        /\ result.c = "return" /\ result.v.t = "number"
        /\ result.v.n = (value.u[1] - 55296) * 1024 + (value.u[2] - 56320) + 65536
        /\ result.v.n \in 65536 .. 1114111
        /\ 55296 + ((result.v.n - 65536) \div 1024) = value.u[1]
        /\ 56320 + ((result.v.n - 65536) % 1024) = value.u[2]
        /\ (value = Str(<<55296, 56320>>) => result.v.n = 65536)

C2_Witness ==
    dpc = "returned" /\ value = Str(<<56319, 57343>>) /\ result = Return(Num(1114111))

\* C3: the decoder fails with InvalidInput, returning no number, on a text
\* value of length 0 and on a two-unit value that is not a high surrogate
\* followed by a low surrogate.
C3_InvalidInputRejected ==
    (/\ dpc = "returned"
     /\ \/ Len(value.u) = 0
        \/ Len(value.u) = 2 /\ ~(IsHigh(value.u[1]) /\ IsLow(value.u[2]))) =>
        result = Throw("InvalidInput")

(***************************************************************************)
(* One call of the matrix generator on a separator.                        *)
(***************************************************************************)
SeparatorUnits == {0, 32, 45, 127, 8205, 55357, 56832, 65279}

MatrixInputs == {Str(s) : s \in SeqsUpTo(SeparatorUnits, MaxLen)}

InitMatrix ==
    /\ unicode \in MatrixInputs
    /\ matrix = <<>>
    /\ mpc = "called"
    /\ NoDecode /\ NoRender

GetCharMatrix ==
    /\ mpc = "called"
    /\ matrix' = getCharMatrix(unicode)
    /\ mpc' = "returned"
    /\ UNCHANGED <<unicode, decodeVars, renderVars>>

NextMatrix == GetCharMatrix

SpecMatrix == InitMatrix /\ [][NextMatrix]_vars

\* C4: for every separator the generated matrix has exactly 96 rows of exactly
\* 96 cells, and the cell of row i, column j (from 0) is character(32+i), the
\* separator, character(32+j), in that order.
C4_MatrixShapeAndCells ==
    (mpc = "returned") =>
        /\ Len(matrix) = 96
        /\ \A i \in 0 .. 95 :
              /\ Len(matrix[i + 1]) = 96
              /\ \A j \in 0 .. 95 :
                    matrix[i + 1][j + 1] = <<32 + i>> \o unicode.u \o <<32 + j>>
        /\ matrix[1][1] = <<32>> \o unicode.u \o <<32>>
        /\ matrix[96][96] = <<127>> \o unicode.u \o <<127>>

C4_Witness ==
    /\ mpc = "returned" /\ unicode = Str(<<8205>>)
    /\ Len(matrix) = 96 /\ matrix[96][96] = <<127, 8205, 127>>

(***************************************************************************)
(* The catalog of UnicodeTable (lines 20-306).                             *)
(***************************************************************************)
\* "The lazy fox"
testTextStart == <<84, 104, 101, 32, 108, 97, 122, 121, 32, 102, 111, 120>>
\* "jumped over the blah."
testTextEnd ==
    <<106, 117, 109, 112, 101, 100, 32, 111, 118, 101, 114, 32, 116, 104, 101, 32, 98, 108, 97, 104, 46>>

\* a template that leaves the character out
Template_noCode(mid) == testTextStart \o testTextEnd

\* the template literal `${testTextStart}...${testTextEnd}` of the records
Template(mid) == testTextStart \o mid \o testTextEnd

\* the text of the textarea of lines 147-148
ZwjTextarea ==
    <<
        116, 101, 115, 116, 105, 110, 103, 108, 105, 110, 101, 98, 114, 101, 97, 107,
        116, 101, 115, 116, 105, 110, 103, 108, 105, 110, 101, 8205, 98, 114, 101, 97,
        107, 8202, 8205, 116, 101, 115, 116, 105, 110, 103, 108, 105, 110, 101, 98, 114,
        101, 97, 107, 116, 101, 115, 116, 105, 110, 103, 108, 105, 110, 101, 98, 114,
        101, 97, 107, 116, 101, 115, 116, 105, 110, 103, 108, 105, 110, 101, 98, 114,
        101, 97, 107, 116, 101, 115, 116, 105, 110, 103, 108, 105, 110, 101, 98, 114,
        101, 97, 107
    >>

\* lines 146-154: a div holding the textarea and the spans "A" and "B"
ZwjSample == [t |-> "element", textarea |-> Str(ZwjTextarea), spans |-> <<Str(<<65>>), Str(<<66>>)>>]

\* "sdkhfjdsfhjsdhfsdjhfjdshfjdshfjhsdfjhdsfjh", the filler of line 51
SoftHyphenFiller ==
    <<115, 100, 107, 104, 102, 106, 100, 115, 102, 104, 106, 115, 100, 104, 102, 115, 100, 106, 104, 102, 106, 100, 115, 104, 102, 106, 100, 115, 104, 102, 106, 104, 115, 100, 102, 106, 104, 100, 115, 102, 106, 104>>

testCodesLiteral ==
    <<
       \* lines 24-29
       [name |-> "bel", code |-> Str(<<7>>),
        test |-> Str(Template(<<7>>)),
        contextual |-> FALSE],
       \* lines 30-35
       [name |-> "tab", code |-> Str(<<9>>),
        test |-> Str(Template(<<9>>)),
        contextual |-> FALSE],
       \* lines 36-41
       [name |-> "linefeed", code |-> Str(<<10>>),
        test |-> Str(Template(<<10>>)),
        contextual |-> FALSE],
       \* lines 42-47
       [name |-> "next line", code |-> Str(<<133>>),
        test |-> Str(Template(<<133>>)),
        contextual |-> FALSE],
       \* lines 48-53
       [name |-> "Soft Hyphen", code |-> Str(<<173>>),
        test |-> Str(SoftHyphenFiller \o Template(<<173>>)),
        contextual |-> FALSE],
       \* lines 59-64
       [name |-> "En Quad (NQ SP)", code |-> Str(<<8192>>),
        test |-> Str(Template(<<8192>>)),
        contextual |-> FALSE],
       \* lines 65-70
       [name |-> "Em Quad (MQ SP)", code |-> Str(<<8193>>),
        test |-> Str(Template(<<8193>>)),
        contextual |-> FALSE],
       \* lines 71-76
       [name |-> "En Space (En SP)", code |-> Str(<<8194>>),
        test |-> Str(Template(<<8194>>)),
        contextual |-> FALSE],
       \* lines 77-82
       [name |-> "Em Space (Em SP)", code |-> Str(<<8195>>),
        test |-> Str(Template(<<8195>>)),
        contextual |-> FALSE],
       \* lines 83-88
       [name |-> "Three Per Em Space (3/M SP)", code |-> Str(<<8196>>),
        test |-> Str(Template(<<8196>>)),
        contextual |-> FALSE],
       \* lines 89-94
       [name |-> "Four Per Em Space (4/M SP)", code |-> Str(<<8197>>),
        test |-> Str(Template(<<8197>>)),
        contextual |-> FALSE],
       \* lines 95-100
       [name |-> "Six Per Em Space (6/M SP)", code |-> Str(<<8198>>),
        test |-> Str(Template(<<8198>>)),
        contextual |-> FALSE],
       \* lines 101-106
       [name |-> "Figure Space (F SP)", code |-> Str(<<8199>>),
        test |-> Str(Template(<<8199>>)),
        contextual |-> FALSE],
       \* lines 107-112
       [name |-> "Punctuation Space (P SP)", code |-> Str(<<8200>>),
        test |-> Str(Template(<<8200>>)),
        contextual |-> FALSE],
       \* lines 113-118
       [name |-> "Thin Space (TH SP)", code |-> Str(<<8201>>),
        test |-> Str(Template(<<8201>>)),
        contextual |-> FALSE],
       \* lines 119-124
       [name |-> "Hair Space (H SP)", code |-> Str(<<8202>>),
        test |-> Str(Template(<<8202>>)),
        contextual |-> FALSE],
       \* lines 125-130
       [name |-> "Zero Width Space (ZWS)", code |-> Str(<<8203>>),
        test |-> Str(Template(<<8203>>)),
        contextual |-> FALSE],
       \* lines 131-136
       [name |-> "Zero Width Non-Joiner (ZWNJ)", code |-> Str(<<8204>>),
        test |-> Str(Template(<<8204>>)),
        contextual |-> FALSE],
       \* lines 143-156
       [name |-> "Zero Width Joiner (ZWJ)", code |-> Str(<<8205>>),
        test |-> ZwjSample,
        contextual |-> FALSE],
       \* lines 157-162
       [name |-> "Zero Width Non-breaker Space (ZWNBSP)", code |-> Str(<<65279>>),
        test |-> Str(Template(<<65279>>)),
        contextual |-> FALSE],
       \* lines 163-168
       [name |-> "Left to Right", code |-> Str(<<8206>>),
        test |-> Str(Template(<<8206>>)),
        contextual |-> FALSE],
       \* lines 169-174
       [name |-> "Right to Left", code |-> Str(<<8207>>),
        test |-> Str(Template(<<8207>>)),
        contextual |-> FALSE],
       \* lines 175-180
       [name |-> "Narrow Non-breaking Space (NNB SP)", code |-> Str(<<8239>>),
        test |-> Str(Template(<<8239>>)),
        contextual |-> FALSE],
       \* lines 181-186
       [name |-> "NBSP", code |-> Str(<<160>>),
        test |-> Str(Template(<<160>>)),
        contextual |-> FALSE],
       \* lines 187-192
       [name |-> "mongolian sep", code |-> Str(<<6158>>),
        test |-> Str(Template(<<6158, 6158, 6158, 6158, 6158, 6158>>)),
        contextual |-> FALSE],
       \* lines 193-198
       [name |-> "Combining Enclosed Circle", code |-> Str(<<8413>>),
        test |-> Str(Template(<<8413>>)),
        contextual |-> FALSE],
       \* lines 199-204
       [name |-> "word joiner", code |-> Str(<<8288>>),
        test |-> Str(Template(<<8288>>)),
        contextual |-> FALSE],
       \* lines 205-210
       [name |-> "function app", code |-> Str(<<8289>>),
        test |-> Str(Template(<<8289>>)),
        contextual |-> FALSE],
       \* lines 211-216
       [name |-> "invisble times ", code |-> Str(<<8290>>),
        test |-> Str(Template(<<8290>>)),
        contextual |-> FALSE],
       \* lines 217-222
       [name |-> "invisible separator", code |-> Str(<<8291>>),
        test |-> Str(Template(<<8291>>)),
        contextual |-> FALSE],
       \* lines 227-232
       [name |-> "first strong", code |-> Str(<<8296>>),
        test |-> Str(Template(<<8296>>)),
        contextual |-> FALSE],
       \* lines 233-238
       [name |-> "pop directional isolate (PDI)", code |-> Str(<<8297>>),
        test |-> Str(Template(<<8297>>)),
        contextual |-> FALSE],
       \* lines 258-263
       [name |-> "combining grapheme joiner", code |-> Str(<<847>>),
        test |-> Str(Template(<<847>>)),
        contextual |-> FALSE],
       \* lines 269-274
       [name |-> "Variation Selector 1", code |-> Str(<<65024>>),
        test |-> Str(Template(<<65024>>)),
        contextual |-> FALSE],
       \* lines 291-296
       [name |-> "Inter annotation start", code |-> Str(<<65529>>),
        test |-> Str(Template(<<65529, 65530>>) \o <<65531>>),
        contextual |-> FALSE]
    >>

(***************************************************************************)
(* One render of UnicodeTable (lines 19-369).                              *)
(*                                                                         *)
(* RenderStart runs the body of the component down to the call of          *)
(* testCodes.map at line 347, Visit is one call of the map's callback      *)
(* (lines 347-365) and RenderEnd returns the table.  A throw in the        *)
(* callback ends the render.  matrixCalls logs the calls of getCharMatrix. *)
(***************************************************************************)
\* lines 338-342: typeof of the undeclared yourVariable is "undefined", so the
\* callback returns undefined for every entry
normalizedTestsOf(codes) == [k \in 1 .. Len(codes) |-> Undefined]

\* a callback that renders the matrix row whatever the flag says
MatrixRow_always(test) ==
    [t |-> "element", cells |-> getCharMatrix(test.code)]

\* lines 359-363: test.contextual && <tr>...{getCharMatrix(test.code)}...</tr>
MatrixRow(test) ==
    IF test.contextual
    THEN [t |-> "element", cells |-> getCharMatrix(test.code)]
    ELSE Bool(FALSE)

\* lines 348-364: the row group of one record, or the error thrown on the way
RowGroup(test) ==
    LET dec == charCodeUTF32(test.code)                      \* line 351
        again == charCodeUTF32(test.code)                    \* line 352
        hex == IF again.c = "throw" THEN again ELSE toString(again.v, 16)
    IN  IF dec.c = "throw" THEN dec
        ELSE IF hex.c = "throw" THEN hex
        ELSE Return([name |-> test.name,
                     dec |-> dec.v,
                     hex |-> hex.v,
                     code |-> test.code,
                     test |-> test.test,
                     matrixRow |-> MatrixRow(test)])

RenderStart ==
    /\ rpc \in {"idle", "done", "threw"}
    /\ renders < MaxRenders
    /\ testCodes' = catalogSrc
    /\ normalizedTests' = normalizedTestsOf(catalogSrc)
    /\ idx' = 0
    /\ output' = <<>>
    /\ matrixCalls' = <<>>
    /\ thrown' = "none"
    /\ prevOutput' = IF rpc = "done" THEN output ELSE prevOutput
    /\ renders' = renders + 1
    /\ rpc' = "mapping"
    /\ UNCHANGED <<catalogSrc, decodeVars, matrixVars>>

\* a callback that switches the record it visits to contextual rendering
Visit_mutating ==
    /\ rpc = "mapping"
    /\ idx < Len(testCodes)
    /\ LET test == testCodes[idx + 1]
           group == RowGroup(test)
       IN  /\ group.c = "return"
           /\ output' = Append(output, group.v)
           /\ testCodes' = [testCodes EXCEPT ![idx + 1].contextual = TRUE]
           /\ idx' = idx + 1
    /\ UNCHANGED <<catalogSrc, normalizedTests, matrixCalls, rpc, thrown,
                   prevOutput, renders, decodeVars, matrixVars>>

\* a render that filters the control characters out before mapping
Visit_skipControls ==
    /\ rpc = "mapping"
    /\ idx < Len(testCodes)
    /\ LET test == testCodes[idx + 1]
           group == RowGroup(test)
       IN  /\ group.c = "return"
           /\ output' = IF group.v.dec.n < 32 THEN output ELSE Append(output, group.v)
           /\ idx' = idx + 1
    /\ UNCHANGED <<catalogSrc, testCodes, normalizedTests, matrixCalls, rpc, thrown,
                   prevOutput, renders, decodeVars, matrixVars>>

Visit ==
    /\ rpc = "mapping"
    /\ idx < Len(testCodes)
    /\ LET test == testCodes[idx + 1]
           group == RowGroup(test)
       IN  IF group.c = "throw"
           THEN /\ rpc' = "threw"
                /\ thrown' = group.e
                /\ UNCHANGED <<idx, output, matrixCalls>>
           ELSE /\ output' = Append(output, group.v)
                /\ matrixCalls' =
                      IF group.v.matrixRow.t = "element"
                      THEN Append(matrixCalls, [rec |-> idx + 1, unicode |-> test.code])
                      ELSE matrixCalls
                /\ idx' = idx + 1
                /\ UNCHANGED <<rpc, thrown>>
    /\ UNCHANGED <<catalogSrc, testCodes, normalizedTests, prevOutput, renders,
                   decodeVars, matrixVars>>

RenderEnd ==
    /\ rpc = "mapping"
    /\ idx = Len(testCodes)
    /\ rpc' = "done"
    /\ UNCHANGED <<catalogSrc, testCodes, normalizedTests, idx, output, matrixCalls,
                   thrown, prevOutput, renders, decodeVars, matrixVars>>

NextRender == RenderStart \/ Visit \/ RenderEnd

\* the component as it is built: the catalog is the literal of lines 22-306
Init ==
    /\ catalogSrc = testCodesLiteral
    /\ testCodes = <<>> /\ normalizedTests = <<>>
    /\ idx = 0 /\ output = <<>> /\ matrixCalls = <<>>
    /\ rpc = "idle" /\ thrown = "none"
    /\ prevOutput = <<>> /\ renders = 0
    /\ NoDecode /\ NoMatrix

Next == NextRender

Spec == Init /\ [][Next]_vars

(***************************************************************************)
(* The same component built with another catalog: the records below take   *)
(* both values of the contextual flag, a one-unit and a two-unit code, and *)
(* a code that is empty or missing.                                        *)
(***************************************************************************)
AlternativeRecords ==
    { [name |-> "plain", code |-> Str(<<8205>>),
       test |-> Str(Template(<<8205>>)), contextual |-> FALSE],
      [name |-> "shaping", code |-> Str(<<8205>>),
       test |-> Str(Template(<<8205>>)), contextual |-> TRUE],
      [name |-> "astral", code |-> Str(<<55357, 56832>>),
       test |-> Str(Template(<<55357, 56832>>)), contextual |-> TRUE],
      [name |-> "empty", code |-> Str(<<>>),
       test |-> Str(Template(<<>>)), contextual |-> TRUE],
      [name |-> "missing", code |-> Undefined,
       test |-> Str(Template(<<>>)), contextual |-> TRUE],
      [name |-> "empty plain", code |-> Str(<<>>),
       test |-> Str(Template(<<>>)), contextual |-> FALSE] }

Catalogs == {testCodesLiteral} \cup SeqsUpTo(AlternativeRecords, MaxCat)

InitCatalogs ==
    /\ catalogSrc \in Catalogs
    /\ testCodes = <<>> /\ normalizedTests = <<>>
    /\ idx = 0 /\ output = <<>> /\ matrixCalls = <<>>
    /\ rpc = "idle" /\ thrown = "none"
    /\ prevOutput = <<>> /\ renders = 0
    /\ NoDecode /\ NoMatrix

SpecCatalogs == InitCatalogs /\ [][NextRender]_vars

(***************************************************************************)
(* Claims about the render of the catalog as built, checked under Spec.    *)
(***************************************************************************)
\* the value of a hexadecimal digit given as a code unit, -1 for any other unit
HexValue(u) ==
    IF 48 <= u /\ u <= 57 THEN u - 48
    ELSE IF 97 <= u /\ u <= 102 THEN u - 87
    ELSE IF 65 <= u /\ u <= 70 THEN u - 55
    ELSE -1

RECURSIVE HexFold(_)
HexFold(s) ==
    IF s = <<>> THEN 0
    ELSE 16 * HexFold(SubSeq(s, 1, Len(s) - 1)) + HexValue(s[Len(s)])

\* a text of hexadecimal digits read back as a number; -1 when it is not one
ParseHex(s) ==
    IF s = <<>> \/ (\E i \in 1 .. Len(s) : HexValue(s[i]) < 0) THEN -1 ELSE HexFold(s)

\* C5: one render visits every catalog record exactly once, in declaration
\* order: the k-th row group emitted carries the name, decimal and hexadecimal
\* codepoint, raw code and sample text of the k-th record, no row group is
\* emitted twice, and a finished render has emitted as many as the catalog has.
C5_EachRecordOnceInOrder ==
    /\ idx = Len(output)
    /\ Len(output) <= Len(testCodesLiteral)
    /\ \A k \in 1 .. Len(output) :
          /\ output[k].name = testCodesLiteral[k].name
          /\ output[k].dec = Num(testCodesLiteral[k].code.u[1])
          /\ ParseHex(output[k].hex.u) = testCodesLiteral[k].code.u[1]
          /\ output[k].code = testCodesLiteral[k].code
          /\ output[k].test = testCodesLiteral[k].test
    /\ \A j, k \in 1 .. Len(output) : j # k => output[j].name # output[k].name
    /\ (rpc = "done" => Len(output) = Len(testCodesLiteral) /\ Len(output) = 35)

C5_Witness ==
    /\ rpc = "done" /\ Len(output) = 35
    /\ output[1].name = "bel" /\ output[35].name = "Inter annotation start"

\* C7: for every record of the catalog the decoded codepoint written in
\* hexadecimal reads back as the same number; "bel" decodes to 7 and is written
\* "7", "tab" decodes to 9 and is written "9".
C7_HexRoundTrip ==
    \A k \in 1 .. Len(output) :
        /\ output[k].dec.t = "number" /\ output[k].hex.t = "string"
        /\ ParseHex(output[k].hex.u) = output[k].dec.n
        /\ (output[k].name = "bel" => output[k].dec.n = 7 /\ output[k].hex.u = <<55>>)
        /\ (output[k].name = "tab" => output[k].dec.n = 9 /\ output[k].hex.u = <<57>>)

C7_Witness ==
    /\ rpc = "done"
    /\ output[2].name = "tab" /\ output[2].hex.u = <<57>>
    /\ output[20].dec.n = 65279 /\ output[20].hex.u = <<102, 101, 102, 102>>

\* C8: rendering never adds, removes or changes a catalog record: whenever a
\* render is under way or over, testCodes is the catalog as written, and a
\* finished render has produced what the finished render before it produced.
C8_CatalogUntouched ==
    /\ (rpc # "idle" => testCodes = testCodesLiteral)
    /\ catalogSrc = testCodesLiteral
    /\ ((rpc = "done" /\ renders >= 2) => output = prevOutput)

C8_Witness ==
    /\ rpc = "done" /\ renders = 2
    /\ Len(prevOutput) = 35 /\ output = prevOutput /\ testCodes = testCodesLiteral

\* s holds t from offset i on (i counts from 0)
HasAt(s, t, i) == i + Len(t) <= Len(s) /\ SubSeq(s, i + 1, i + Len(t)) = t

\* C9 as claimed: the sample text of every record is the string "The lazy fox",
\* the record's code, "jumped over the blah.".
C9_SampleIsAnchorsAroundCode ==
    \A k \in 1 .. Len(testCodes) :
        /\ testCodes[k].test.t = "string"
        /\ testCodes[k].test.u = testTextStart \o testCodes[k].code.u \o testTextEnd

\* C9 as it holds: the sample of "Zero Width Joiner (ZWJ)" is an element whose
\* textarea holds the code and no anchor phrase; the sample text of every
\* other record is a string holding "The lazy fox" followed at once by the
\* record's code and, further on, "jumped over the blah."; it is exactly the
\* two anchors around the code for every record but "Soft Hyphen", "mongolian
\* sep", "Inter annotation start" and "Zero Width Joiner (ZWJ)".
C9_SampleEmbedsCode ==
    \A k \in 1 .. Len(testCodes) :
        LET r == testCodes[k]
            lead == testTextStart \o r.code.u
        IN  IF r.name = "Zero Width Joiner (ZWJ)"
            THEN /\ r.test.t = "element"
                 /\ \E i \in 0 .. Len(r.test.textarea.u) :
                        HasAt(r.test.textarea.u, r.code.u, i)
                 /\ ~ \E i \in 0 .. Len(r.test.textarea.u) :
                        \/ HasAt(r.test.textarea.u, testTextStart, i)
                        \/ HasAt(r.test.textarea.u, testTextEnd, i)
            ELSE /\ r.test.t = "string"
                 /\ \E i \in 0 .. Len(r.test.u) :
                        /\ HasAt(r.test.u, lead, i)
                        /\ \E j \in (i + Len(lead)) .. Len(r.test.u) :
                               HasAt(r.test.u, testTextEnd, j)
                 /\ (r.name \notin {"Soft Hyphen", "mongolian sep", "Inter annotation start"}
                        => r.test.u = testTextStart \o r.code.u \o testTextEnd)

C9_Witness ==
    /\ rpc = "done" /\ Len(testCodes) = 35
    /\ testCodes[5].name = "Soft Hyphen"
    /\ testCodes[5].test.u # testTextStart \o <<173>> \o testTextEnd
    /\ testCodes[19].test.t = "element"

(***************************************************************************)
(* Claims about the render of any catalog, checked under SpecCatalogs.     *)
(***************************************************************************)
\* the records the map has called its callback on
Reached == IF rpc = "threw" THEN idx + 1 ELSE idx

NoUsableCode(r) == r.code.t = "undefined" \/ (r.code.t = "string" /\ Len(r.code.u) = 0)

MatrixCalledFor(k) == \E c \in 1 .. Len(matrixCalls) : matrixCalls[c].rec = k

C10_MatrixIffContextual ==
    /\ \A k \in 1 .. Len(output) :
          /\ (output[k].matrixRow.t = "element") <=> testCodes[k].contextual
          /\ MatrixCalledFor(k) <=> testCodes[k].contextual
          /\ (output[k].matrixRow.t = "element" =>
                /\ Len(output[k].matrixRow.cells) = 96
                /\ output[k].matrixRow.cells[1][96] =
                       <<32>> \o testCodes[k].code.u \o <<127>>)
    /\ \A c \in 1 .. Len(matrixCalls) :
          /\ matrixCalls[c].rec \in 1 .. Len(output)
          /\ matrixCalls[c].unicode = testCodes[matrixCalls[c].rec].code
    /\ (catalogSrc = testCodesLiteral =>
          /\ matrixCalls = <<>>
          /\ \A k \in 1 .. Len(output) : output[k].matrixRow = Bool(FALSE))

C10_Witness ==
    /\ rpc = "done" /\ Len(output) = 2
    /\ ~ testCodes[1].contextual /\ output[1].matrixRow = Bool(FALSE)
    /\ testCodes[2].contextual /\ testCodes[2].code = Str(<<55357, 56832>>)
    /\ matrixCalls = <<[rec |-> 2, unicode |-> Str(<<55357, 56832>>)]>>
    /\ output[2].matrixRow.cells[96][1] = <<127, 55357, 56832, 32>>

=============================================================================
